---- MODULE Spec2Model ----
(***************************************************************************)
(* Model of minutes-tui (src/src/minutes/minutes.py): the Minute table in  *)
(* the SQLite file, the store functions minutes_all / minute_save /        *)
(* minute_get / minute_delete, and the Textual screens with their          *)
(* handlers on top of the application's screen stack.                      *)
(***************************************************************************)
EXTENDS Integers, Sequences, FiniteSets, TLC

\* ---------------------------------------------------------------- bounds
MaxInserts == 2     \* a direct caller of the store stops after this many INSERTs
MaxDepth == 4       \* no screen is pushed once the stack holds this many
MaxInitRows == 2    \* rows an earlier run of the program left in the data file
MaxBullets == 2     \* no bullet is mounted once an Edit screen holds this many
EditDepth == 3      \* depth of the stack while the bullet Inputs are typed into

\* Values an Input widget (or a Minute attribute) can hold.
Titles == {"", "Sync"}
Attendees == {"", "Alice,Bob"}
Abouts == {"", "weekly"}
BulletTexts == {"", "item"}

\* ------------------------------------------------------------ the entity
\* Python None as the value of Minute.id / of a minute_id argument.
None == -1

\* Optional[Minute]: the value None.
Absent == [present |-> FALSE]

\* Minute(title=..., attendees=..., about=...): id takes its default, None.
Minute(title, attendees, about) ==
    [present |-> TRUE, id |-> None, title |-> title,
     attendees |-> attendees, about |-> about]

VARIABLES
    store,      \* the minute table: rowid -> [title, attendees, about]
    stack,      \* App screen stack, bottom first; the last one is active
    obj,        \* the Minute a direct caller of the store functions holds
    crashed,    \* an exception left a handler of the running App
    issued,     \* history: the ids INSERTs have assigned, oldest first
    removed,    \* history: the ids whose rows a DELETE has removed
    last        \* history: the last handler or store call, its argument and outcome

vars == <<store, stack, obj, crashed, issued, removed, last>>

\* ------------------------------------------------------------- the store
Max(S) == CHOOSE x \in S : \A y \in S : y <= x
Min(S) == CHOOSE x \in S : \A y \in S : x <= y

\* The largest rowid in use is handed out again.
NextId_top(s) == IF DOMAIN s = {} THEN 1 ELSE Max(DOMAIN s)

\* The table was declared with id INTEGER PRIMARY KEY (no AUTOINCREMENT):
\* SQLite gives a row inserted without an id one more than the largest
\* rowid currently in the table, and 1 in an empty table.
NextId(s) == IF DOMAIN s = {} THEN 1 ELSE Max(DOMAIN s) + 1

\* The Minute object loaded from the row with this id.
Row(s, id) ==
    [present |-> TRUE, id |-> id, title |-> s[id].title,
     attendees |-> s[id].attendees, about |-> s[id].about]

Fields(minute) ==
    [title |-> minute.title, attendees |-> minute.attendees,
     about |-> minute.about]

RECURSIVE Ascending(_)
Ascending(S) ==
    IF S = {} THEN << >>
    ELSE LET m == Min(S) IN <<m>> \o Ascending(S \ {m})

\* The scan stops one row early.
minutes_all_short(s) ==
    LET ids == Ascending(DOMAIN s)
    IN  [i \in 1..(Len(ids) - 1) |-> Row(s, ids[i])]

\* select(Minute): a scan of the table, in rowid order.
minutes_all(s) ==
    LET ids == Ascending(DOMAIN s)
    IN  [i \in 1..Len(ids) |-> Row(s, ids[i])]

\* The id of the Minute is ignored: every save is an INSERT.
minute_save_inserting(s, minute) ==
    IF ~minute.present
    THEN [store |-> s, minute |-> minute, raised |-> "UnmappedInstanceError"]
    ELSE LET n == NextId(s)
             t == [i \in DOMAIN s \cup {n} |->
                      IF i = n THEN Fields(minute) ELSE s[i]]
         IN  [store |-> t, minute |-> Row(t, n), raised |-> ""]

\* session.add + commit + refresh.  A Minute without id is INSERTed and
\* refreshed with the assigned id; a Minute loaded from the table is UPDATEd
\* where id matches (a caller holding one object per row is modelled, so the
\* row ends up with the object's attributes); if that row is gone the flush
\* or the refresh raises and nothing is written.
minute_save(s, minute) ==
    IF ~minute.present
    THEN [store |-> s, minute |-> minute, raised |-> "UnmappedInstanceError"]
    ELSE IF minute.id = None
    THEN LET n == NextId(s)
             t == [i \in DOMAIN s \cup {n} |->
                      IF i = n THEN Fields(minute) ELSE s[i]]
         IN  [store |-> t, minute |-> Row(t, n), raised |-> ""]
    ELSE IF minute.id \in DOMAIN s
    THEN LET t == [s EXCEPT ![minute.id] = Fields(minute)]
         IN  [store |-> t, minute |-> Row(t, minute.id), raised |-> ""]
    ELSE [store |-> s, minute |-> minute, raised |-> "StaleDataError"]

\* The select lost its where clause: first() is the row with the lowest id.
minute_get_first(s, minute_id) ==
    IF minute_id = None \/ minute_id = 0
    THEN Absent
    ELSE IF DOMAIN s # {} THEN Row(s, Min(DOMAIN s)) ELSE Absent

minute_get(s, minute_id) ==
    IF minute_id = None \/ minute_id = 0
    THEN Absent
    ELSE IF minute_id \in DOMAIN s THEN Row(s, minute_id) ELSE Absent

\* The DELETE lost its where clause.
minute_delete_all(s, minute) ==
    IF ~minute.present
    THEN [store |-> s, raised |-> "UnmappedInstanceError"]
    ELSE IF minute.id = None
    THEN [store |-> s, raised |-> "InvalidRequestError"]
    ELSE [store |-> << >>, raised |-> ""]

\* session.delete + commit.  None is not a mapped instance and a Minute that
\* was never saved is not persisted: both raise.  For a loaded Minute the
\* DELETE is issued where id matches; when no row matches SQLAlchemy only
\* warns about the row count.
minute_delete(s, minute) ==
    IF ~minute.present
    THEN [store |-> s, raised |-> "UnmappedInstanceError"]
    ELSE IF minute.id = None
    THEN [store |-> s, raised |-> "InvalidRequestError"]
    ELSE [store |-> [i \in DOMAIN s \ {minute.id} |-> s[i]], raised |-> ""]

\* ----------------------------------------------------------- the screens
\* MinutesScreen: MinutesList.compose reads the table when the screen is
\* mounted and yields one MinuteListItem per row.
MinutesScreen(s) == [kind |-> "List", rows |-> minutes_all(s)]

\* MinuteEditScreen.__init__ + compose: the three Inputs start with the
\* attributes of the resolved Minute, or empty.
MinuteEditScreen(s, minute_id) ==
    LET minute == minute_get(s, minute_id)
    IN  [kind |-> "Edit", minute |-> minute,
         title |-> IF minute.present THEN minute.title ELSE "",
         attendees |-> IF minute.present THEN minute.attendees ELSE "",
         about |-> IF minute.present THEN minute.about ELSE "",
         bullets |-> << >>]

\* MinuteViewScreen.__init__ + compose: the markdown shows the Minute read at
\* mount; formatting an absent Minute raises AttributeError.
MinuteViewScreen(s, minute_id) ==
    [kind |-> "View", minute_id |-> minute_id, shown |-> minute_get(s, minute_id)]

MinuteDeleteScreen(minute_id) == [kind |-> "Delete", minute_id |-> minute_id]

Top == stack[Len(stack)]

\* App.push_screen / App.pop_screen
push_screen(st, screen) == Append(st, screen)
pop_screen(st) == SubSeq(st, 1, Len(st) - 1)

\* The running App handles a message on its active screen.
Active(kind) == ~crashed /\ Len(stack) > 0 /\ Top.kind = kind

\* The ids carried by the affordances of the active List screen.
RowIds(screen) == {screen.rows[i].id : i \in 1..Len(screen.rows)}

Op(op, id, raised) == [op |-> op, id |-> id, raised |-> raised, ret |-> Absent]

Range(f) == {f[i] : i \in DOMAIN f}

\* ------------------------------------------------------------------ Init
\* init_database: the data file is created if missing and kept otherwise, so
\* the table holds what earlier runs saved (here: rows 1..k, none deleted,
\* each saved from the same Inputs).
SavedBefore ==
    {[title |-> "Sync", attendees |-> "Alice,Bob", about |-> "weekly"]}

InitStores == UNION {[1..k -> SavedBefore] : k \in 0..MaxInitRows}

\* The module imported on the data file s, the App not yet mounted.
InitOn(s) ==
    /\ store = s
    /\ stack = << >>
    /\ obj = Absent
    /\ crashed = FALSE
    /\ issued = Ascending(DOMAIN s)
    /\ removed = {}
    /\ last = Op("init", None, "")

Init == \E s \in InitStores : InitOn(s)

\* The data file did not exist.
InitFresh == InitOn(<< >>)

\* ------------------------------------------------------- actions: the App
on_mount ==
    /\ ~crashed /\ stack = << >>
    /\ stack' = push_screen(stack, MinutesScreen(store))
    /\ last' = Op("on_mount", None, "")
    /\ UNCHANGED <<store, obj, crashed, issued, removed>>

\* MinutesScreen.on_button_pressed: the only Button is "New!".
MinutesScreen_on_button_pressed ==
    /\ Active("List") /\ Len(stack) < MaxDepth
    /\ stack' = push_screen(stack, MinuteEditScreen(store, None))
    /\ last' = Op("new", None, "")
    /\ UNCHANGED <<store, obj, crashed, issued, removed>>

\* MinutesApp.action_new_minute (binding "n" of MinutesScreen).
action_new_minute ==
    /\ Active("List") /\ Len(stack) < MaxDepth
    /\ stack' = push_screen(stack, MinuteEditScreen(store, None))
    /\ last' = Op("new", None, "")
    /\ UNCHANGED <<store, obj, crashed, issued, removed>>

\* A click on the :mag: link of a row of the active list.
action_minute_view(minute_id) ==
    /\ Active("List") /\ Len(stack) < MaxDepth
    /\ minute_id \in RowIds(Top)
    /\ LET screen == MinuteViewScreen(store, minute_id)
       IN  IF screen.shown.present
           THEN /\ stack' = push_screen(stack, screen)
                /\ last' = Op("view", minute_id, "")
                /\ UNCHANGED crashed
           ELSE /\ crashed' = TRUE
                /\ last' = Op("view", minute_id, "AttributeError")
                /\ UNCHANGED stack
    /\ UNCHANGED <<store, obj, issued, removed>>

\* A click on the :pencil: link of a row of the active list.
action_minute_edit(minute_id) ==
    /\ Active("List") /\ Len(stack) < MaxDepth
    /\ minute_id \in RowIds(Top)
    /\ stack' = push_screen(stack, MinuteEditScreen(store, minute_id))
    /\ last' = Op("edit", minute_id, "")
    /\ UNCHANGED <<store, obj, crashed, issued, removed>>

\* The confirmation replaces the list (switch_screen) instead of being
\* pushed above it.
action_minute_delete_switching(minute_id) ==
    /\ Active("List") /\ Len(stack) < MaxDepth
    /\ minute_id \in RowIds(Top)
    /\ stack' = push_screen(pop_screen(stack), MinuteDeleteScreen(minute_id))
    /\ last' = Op("delete", minute_id, "")
    /\ UNCHANGED <<store, obj, crashed, issued, removed>>

\* A click on the :wastebasket: link of a row of the active list.
action_minute_delete(minute_id) ==
    /\ Active("List") /\ Len(stack) < MaxDepth
    /\ minute_id \in RowIds(Top)
    /\ stack' = push_screen(stack, MinuteDeleteScreen(minute_id))
    /\ last' = Op("delete", minute_id, "")
    /\ UNCHANGED <<store, obj, crashed, issued, removed>>

\* The user types into one of the three Inputs of the active Edit screen.
InputChanged ==
    /\ Active("Edit")
    /\ \/ \E v \in Titles : stack' = [stack EXCEPT ![Len(stack)].title = v]
       \/ \E v \in Attendees : stack' = [stack EXCEPT ![Len(stack)].attendees = v]
       \/ \E v \in Abouts : stack' = [stack EXCEPT ![Len(stack)].about = v]
    /\ stack' # stack
    /\ UNCHANGED <<store, obj, crashed, issued, removed, last>>

action_add_bullet ==
    /\ Active("Edit") /\ Len(Top.bullets) < MaxBullets
    /\ stack' = [stack EXCEPT ![Len(stack)].bullets = Append(@, "")]
    /\ last' = Op("add_bullet", None, "")
    /\ UNCHANGED <<store, obj, crashed, issued, removed>>

\* bullets.first().remove() in place of bullets.last().remove().
action_remove_bullet_first ==
    /\ Active("Edit")
    /\ stack' = [stack EXCEPT ![Len(stack)].bullets =
                    IF Len(@) > 0 THEN SubSeq(@, 2, Len(@)) ELSE @]
    /\ last' = Op("remove_bullet", None, "")
    /\ UNCHANGED <<store, obj, crashed, issued, removed>>

action_remove_bullet ==
    /\ Active("Edit")
    /\ stack' = [stack EXCEPT ![Len(stack)].bullets =
                    IF Len(@) > 0 THEN SubSeq(@, 1, Len(@) - 1) ELSE @]
    /\ last' = Op("remove_bullet", None, "")
    /\ UNCHANGED <<store, obj, crashed, issued, removed>>

\* MinuteEditScreen.create_minute: a Minute built from the three Inputs.
create_minute(s, screen) ==
    minute_save(s, Minute(screen.title, screen.attendees, screen.about))

\* A store function called while the engine cannot complete the statement
\* (disk, permissions, lock): the transaction is rolled back and the
\* exception leaves the function.
Failed(s) == [store |-> s, minute |-> Absent, raised |-> "OperationalError"]

\* "Save" with the exception of create_minute swallowed: the push follows.
MinuteEditScreen_save_swallowing ==
    /\ Active("Edit") /\ Len(stack) < MaxDepth
    /\ \E fails \in BOOLEAN :
         LET r == IF fails THEN Failed(store) ELSE create_minute(store, Top)
         IN  /\ store' = r.store
             /\ issued' = IF fails THEN issued ELSE Append(issued, r.minute.id)
             /\ stack' = push_screen(stack, MinutesScreen(r.store))
             /\ last' = Op("save", IF fails THEN None ELSE r.minute.id, r.raised)
    /\ UNCHANGED <<obj, crashed, removed>>

\* MinuteEditScreen.on_button_pressed, Button "Save": create_minute, then
\* push_screen; an exception of create_minute leaves the handler before the
\* push and ends the App.
MinuteEditScreen_save ==
    /\ Active("Edit") /\ Len(stack) < MaxDepth
    /\ \E fails \in BOOLEAN :
         LET r == IF fails THEN Failed(store) ELSE create_minute(store, Top)
         IN  IF r.raised = ""
             THEN /\ store' = r.store
                  /\ issued' = Append(issued, r.minute.id)
                  /\ stack' = push_screen(stack, MinutesScreen(r.store))
                  /\ last' = Op("save", r.minute.id, "")
                  /\ UNCHANGED crashed
             ELSE /\ crashed' = TRUE
                  /\ last' = Op("save", None, r.raised)
                  /\ UNCHANGED <<store, stack, issued>>
    /\ UNCHANGED <<obj, removed>>

\* Cancel without the test of the button's name: create_minute runs too.
MinuteEditScreen_cancel_saving ==
    /\ Active("Edit") /\ Len(stack) < MaxDepth
    /\ LET r == create_minute(store, Top)
       IN  /\ store' = r.store
           /\ issued' = Append(issued, r.minute.id)
           /\ stack' = push_screen(stack, MinutesScreen(r.store))
    /\ last' = Op("cancel", None, "")
    /\ UNCHANGED <<obj, crashed, removed>>

\* Cancel replaces the Edit screen by the new list (switch_screen).
MinuteEditScreen_cancel_switching ==
    /\ Active("Edit") /\ Len(stack) < MaxDepth
    /\ stack' = push_screen(pop_screen(stack), MinutesScreen(store))
    /\ last' = Op("cancel", None, "")
    /\ UNCHANGED <<store, obj, crashed, issued, removed>>

\* MinuteEditScreen.on_button_pressed, Button "Cancel".
MinuteEditScreen_cancel ==
    /\ Active("Edit") /\ Len(stack) < MaxDepth
    /\ stack' = push_screen(stack, MinutesScreen(store))
    /\ last' = Op("cancel", None, "")
    /\ UNCHANGED <<store, obj, crashed, issued, removed>>

\* "Yes!" returns with pop_screen instead of pushing a new MinutesScreen.
MinuteDeleteScreen_yes_popping ==
    /\ Active("Delete")
    /\ LET minute == minute_get(store, Top.minute_id)
           r == minute_delete(store, minute)
       IN  IF r.raised = ""
           THEN /\ store' = r.store
                /\ removed' = removed \cup (DOMAIN store \ DOMAIN r.store)
                /\ stack' = pop_screen(stack)
                /\ last' = Op("yes", Top.minute_id, "")
                /\ UNCHANGED crashed
           ELSE /\ crashed' = TRUE
                /\ last' = Op("yes", Top.minute_id, r.raised)
                /\ UNCHANGED <<store, stack, removed>>
    /\ UNCHANGED <<obj, issued>>

\* MinuteDeleteScreen.on_button_pressed, Button "Yes!": minute_get,
\* minute_delete, then push_screen; an exception of either store function
\* leaves the handler before the push and ends the App.
MinuteDeleteScreen_yes ==
    /\ Active("Delete") /\ Len(stack) < MaxDepth
    /\ \E fails \in BOOLEAN :
       LET minute == minute_get(store, Top.minute_id)
           r == IF fails THEN Failed(store) ELSE minute_delete(store, minute)
       IN  IF r.raised = ""
           THEN /\ store' = r.store
                /\ removed' = removed \cup (DOMAIN store \ DOMAIN r.store)
                /\ stack' = push_screen(stack, MinutesScreen(r.store))
                /\ last' = Op("yes", Top.minute_id, "")
                /\ UNCHANGED crashed
           ELSE /\ crashed' = TRUE
                /\ last' = Op("yes", Top.minute_id, r.raised)
                /\ UNCHANGED <<store, stack, removed>>
    /\ UNCHANGED <<obj, issued>>

\* The test of the button's id is inverted: "No" deletes and pushes.
MinuteDeleteScreen_no_deleting ==
    /\ Active("Delete") /\ Len(stack) < MaxDepth
    /\ LET r == minute_delete(store, minute_get(store, Top.minute_id))
       IN  /\ r.raised = ""
           /\ store' = r.store
           /\ removed' = removed \cup (DOMAIN store \ DOMAIN r.store)
           /\ stack' = push_screen(stack, MinutesScreen(r.store))
    /\ last' = Op("no", Top.minute_id, "")
    /\ UNCHANGED <<obj, crashed, issued>>

\* MinuteDeleteScreen.on_button_pressed, Button "No".
MinuteDeleteScreen_no ==
    /\ Active("Delete")
    /\ stack' = pop_screen(stack)
    /\ last' = Op("no", Top.minute_id, "")
    /\ UNCHANGED <<store, obj, crashed, issued, removed>>

Next ==
    \/ on_mount
    \/ MinutesScreen_on_button_pressed
    \/ action_new_minute
    \/ \E minute_id \in Range(issued) : action_minute_view(minute_id)
    \/ \E minute_id \in Range(issued) : action_minute_edit(minute_id)
    \/ \E minute_id \in Range(issued) : action_minute_delete(minute_id)
    \/ InputChanged
    \/ action_add_bullet
    \/ action_remove_bullet
    \/ MinuteEditScreen_save
    \/ MinuteEditScreen_cancel
    \/ MinuteDeleteScreen_yes
    \/ MinuteDeleteScreen_no

Spec == Init /\ [][Next]_vars

\* ------------------------------------------- the App, bullets typed into
\* The user types into the Input of one MinuteBullet of the active Edit
\* screen.  (Under Spec the bullet Inputs are left blank.)
BulletChanged ==
    /\ Active("Edit")
    /\ \E i \in 1..Len(Top.bullets), v \in BulletTexts :
          stack' = [stack EXCEPT ![Len(stack)].bullets[i] = v]
    /\ stack' # stack
    /\ UNCHANGED <<store, obj, crashed, issued, removed, last>>

\* The data file holds the one Minute an earlier run saved.
InitEdit == \E s \in [1..1 -> SavedBefore] : InitOn(s)

\* The steps of Next that keep the stack within EditDepth, and the typing.
Shallow == Len(stack') <= EditDepth

NextEdit ==
    \/ on_mount /\ Shallow
    \/ MinutesScreen_on_button_pressed /\ Shallow
    \/ action_new_minute /\ Shallow
    \/ /\ \E minute_id \in Range(issued) : action_minute_view(minute_id)
       /\ Shallow
    \/ /\ \E minute_id \in Range(issued) : action_minute_edit(minute_id)
       /\ Shallow
    \/ /\ \E minute_id \in Range(issued) : action_minute_delete(minute_id)
       /\ Shallow
    \/ InputChanged /\ Shallow
    \/ action_add_bullet /\ Shallow
    \/ action_remove_bullet /\ Shallow
    \/ MinuteEditScreen_save /\ Shallow
    \/ MinuteEditScreen_cancel /\ Shallow
    \/ MinuteDeleteScreen_yes /\ Shallow
    \/ MinuteDeleteScreen_no /\ Shallow
    \/ BulletChanged

SpecEdit == InitEdit /\ [][NextEdit]_vars

\* ------------------------------------- actions: a caller of the store
\* The functions of the store called directly, on the one Minute the caller
\* holds in obj, with the App not running.

\* obj = Minute(title=..., attendees=..., about=...)
Construct ==
    /\ \E t \in Titles, a \in Attendees, b \in Abouts : obj' = Minute(t, a, b)
    /\ obj' # obj
    /\ last' = Op("Minute", None, "")
    /\ UNCHANGED <<store, stack, crashed, issued, removed>>

\* obj.title = ... ; obj.attendees = ... ; obj.about = ...
SetAttributes ==
    /\ obj.present
    /\ \E t \in Titles, a \in Attendees, b \in Abouts :
          obj' = [obj EXCEPT !.title = t, !.attendees = a, !.about = b]
    /\ obj' # obj
    /\ last' = Op("setattr", obj.id, "")
    /\ UNCHANGED <<store, stack, crashed, issued, removed>>

\* minute_save(obj)
CallSave ==
    /\ (obj.present /\ obj.id = None) => Len(issued) < MaxInserts
    /\ LET r == minute_save(store, obj)
       IN  /\ store' = r.store
           /\ obj' = r.minute
           /\ issued' = IF obj.present /\ obj.id = None /\ r.raised = ""
                        THEN Append(issued, r.minute.id) ELSE issued
           /\ last' = [Op("minute_save", IF obj.present THEN obj.id ELSE None,
                          r.raised) EXCEPT !.ret = r.minute]
    /\ UNCHANGED <<stack, crashed, removed>>

\* obj = minute_get(minute_id)
CallGet(minute_id) ==
    /\ obj' = minute_get(store, minute_id)
    /\ last' = [Op("minute_get", minute_id, "") EXCEPT !.ret = obj']
    /\ UNCHANGED <<store, stack, crashed, issued, removed>>

\* minute_delete(obj)
CallDelete ==
    /\ LET r == minute_delete(store, obj)
       IN  /\ store' = r.store
           /\ removed' = removed \cup (DOMAIN store \ DOMAIN r.store)
           /\ last' = Op("minute_delete", IF obj.present THEN obj.id ELSE None,
                         r.raised)
    /\ UNCHANGED <<stack, obj, crashed, issued>>

\* minutes_all()
CallAll ==
    /\ last' = [Op("minutes_all", None, "") EXCEPT !.ret = minutes_all(store)]
    /\ UNCHANGED <<store, stack, obj, crashed, issued, removed>>

\* The ids a caller passes: None, 0, every id handed out so far, and the
\* first id not yet in the table.
GetArgs == {None, 0, NextId(store)} \cup Range(issued)

NextStore ==
    \/ Construct
    \/ SetAttributes
    \/ CallSave
    \/ \E minute_id \in GetArgs : CallGet(minute_id)
    \/ CallDelete
    \/ CallAll

SpecStore == InitFresh /\ [][NextStore]_vars

\* ------------------------------------------------------------ properties

\* C2: an id the store assigns to a newly inserted Minute is never assigned
\* again, also not after the Minute that held it was deleted: the ids handed
\* out by INSERTs are pairwise different.
C2_IdNeverReused ==
    \A i, j \in DOMAIN issued : i # j => issued[i] # issued[j]

\* The Inputs of an Edit screen, as the attributes of a row.
Typed(screen) ==
    [title |-> screen.title, attendees |-> screen.attendees,
     about |-> screen.about]

\* This step is the handler of <op> running on the active <kind> screen.
Handles(kind, op) == Active(kind) /\ last'.op = op

\* ... and no exception left it.
Succeeds(kind, op) == Handles(kind, op) /\ last'.raised = ""

\* C1: Save on an Edit screen constructed with the id of an existing Minute
\* updates in place: the store holds as many records as before, the record
\* with that id carries the values of the three Inputs, and no id is
\* assigned.
C1_SaveUpdatesInPlace ==
    [][(Succeeds("Edit", "save") /\ Top.minute.present) =>
          /\ Cardinality(DOMAIN store') = Cardinality(DOMAIN store)
          /\ Top.minute.id \in DOMAIN store'
          /\ store'[Top.minute.id] = Typed(Top)
          /\ issued' = issued]_vars

\* C3: Cancel on an Edit screen, opened for a new or for an existing Minute
\* and whatever was typed or added as bullets, leaves the table as it was and
\* makes a List screen the active one; from an empty table the list read
\* afterwards is still empty.
C3_CancelKeepsStore ==
    [][Handles("Edit", "cancel") =>
          /\ store' = store
          /\ ~crashed'
          /\ Len(stack') > 0 /\ stack'[Len(stack')].kind = "List"
          /\ (minutes_all(store) = << >> => minutes_all(store') = << >>)]_vars

\* Cancel has run on an Edit screen whose Inputs were changed and that held
\* a bullet.
C3_Witness ==
    /\ last.op = "cancel" /\ Len(stack) >= 2 /\ Top.kind = "List"
    /\ LET e == stack[Len(stack) - 1]
       IN  /\ e.kind = "Edit"
           /\ Typed(e) # (IF e.minute.present THEN Fields(e.minute)
                                              ELSE Typed(MinuteEditScreen(store, None)))
           /\ Len(e.bullets) > 0

\* The ids of the Minutes in a list.
Ids(list) == {list[i].id : i \in DOMAIN list}

\* C4: "No" on the delete confirmation of an id leaves the table unchanged,
\* the record is still returned by minute_get(id), and exactly one screen is
\* popped: the List screen that was active before the confirmation was pushed
\* is active again, above the same screens as before.
C4_NoKeepsRecord ==
    [][Handles("Delete", "no") =>
          /\ store' = store
          /\ minute_get(store', Top.minute_id).present
          /\ minute_get(store', Top.minute_id) = minute_get(store, Top.minute_id)
          /\ ~crashed'
          /\ Len(stack) >= 2
          /\ stack' = SubSeq(stack, 1, Len(stack) - 1)
          /\ stack'[Len(stack')].kind = "List"]_vars

\* "No" has run and resumed a List screen that lies above other screens.
C4_Witness ==
    /\ last.op = "no" /\ ~crashed
    /\ Len(stack) >= 3 /\ Top.kind = "List"
    /\ minute_get(store, last.id).present

\* C5: "Yes!" on the delete confirmation of an id present in the table
\* removes exactly that record: minute_get(id) is then absent, minutes_all()
\* has no record with that id, every other record is still there with its id
\* and fields, and a List screen is active.
C5_YesRemovesExactlyOne ==
    [][(Succeeds("Delete", "yes") /\ Top.minute_id \in DOMAIN store) =>
          /\ ~minute_get(store', Top.minute_id).present
          /\ Top.minute_id \notin Ids(minutes_all(store'))
          /\ DOMAIN store' = DOMAIN store \ {Top.minute_id}
          /\ \A id \in DOMAIN store \ {Top.minute_id} :
                minute_get(store', id) = minute_get(store, id)
          /\ ~crashed'
          /\ stack'[Len(stack')].kind = "List"]_vars

\* "Yes!" has run while the table held another record, which is still there.
C5_Witness ==
    /\ last.op = "yes" /\ last.raised = "" /\ last.id \in removed
    /\ Len(stack) >= 2 /\ stack[Len(stack) - 1].kind = "Delete"
    /\ Top.kind = "List"
    /\ DOMAIN store # {}

\* This step is minute_save(obj) by a direct caller.
Saves == last'.op = "minute_save" /\ obj.present

\* C6: round trip.  minute_save of a Minute without id, with any title
\* (the empty one included), attendees and about, assigns it an id, and
\* minute_get of that id then returns a record with that id and the same
\* title, attendees and about.
C6_RoundTrip ==
    [][(Saves /\ obj.id = None) =>
          /\ last'.raised = ""
          /\ obj'.present /\ obj'.id # None /\ obj'.id # 0
          /\ Fields(obj') = Fields(obj)
          /\ minute_get(store', obj'.id) = [obj EXCEPT !.id = obj'.id]]_vars

\* A Minute with the empty title and other fields set was saved as a new
\* record next to an existing one.
C6_Witness ==
    /\ last.op = "minute_save" /\ last.id = None /\ last.raised = ""
    /\ obj.present /\ obj.id \in DOMAIN store
    /\ obj.title = "" /\ obj.attendees # "" /\ obj.about # ""
    /\ Cardinality(DOMAIN store) >= 2

\* C7: minute_save of a Minute that already has an id, with whatever
\* attributes were modified, leaves that id, leaves the number of records,
\* and the row with that id then holds the Minute's attributes.
C7_SaveKeepsId ==
    [][(Saves /\ obj.id # None) =>
          /\ obj'.present /\ obj'.id = obj.id
          /\ Cardinality(DOMAIN store') = Cardinality(DOMAIN store)
          /\ DOMAIN store' = DOMAIN store
          /\ obj.id \in DOMAIN store =>
                /\ last'.raised = ""
                /\ store'[obj.id] = Fields(obj)
                /\ obj' = obj]_vars

\* A Minute with an id was saved again after its attributes were changed,
\* in a table with two records.
C7_Witness ==
    /\ last.op = "minute_save" /\ last.id # None /\ last.raised = ""
    /\ obj.present /\ obj.id = last.id /\ obj.id \in DOMAIN store
    /\ store[obj.id] = Fields(obj)
    /\ Cardinality(DOMAIN store) >= 2
    /\ Len(issued) = Cardinality(DOMAIN store)

\* C8: minute_get(None) is absent whatever the table holds; an Edit screen
\* constructed without minute_id resolves no Minute and starts with empty
\* Inputs, and Save on it inserts exactly one record, under an id that is not
\* None and that no record of the table has, and changes no other record.
C8_CreateMode ==
    /\ [](~minute_get(store, None).present)
    /\ [][/\ Handles("List", "new") =>
               /\ stack'[Len(stack')].kind = "Edit"
               /\ ~stack'[Len(stack')].minute.present
               /\ Typed(stack'[Len(stack')]) = [title |-> "", attendees |-> "", about |-> ""]
          /\ (Succeeds("Edit", "save") /\ ~Top.minute.present) =>
               /\ last'.id # None /\ last'.id \notin DOMAIN store
               /\ DOMAIN store' = DOMAIN store \cup {last'.id}
               /\ Cardinality(DOMAIN store') = Cardinality(DOMAIN store) + 1
               /\ store'[last'.id] = Typed(Top)
               /\ \A id \in DOMAIN store : store'[id] = store[id]]_vars

\* Save has run on an Edit screen constructed without minute_id while the
\* table already held a record.
C8_Witness ==
    /\ last.op = "save" /\ Len(stack) >= 2 /\ Top.kind = "List"
    /\ stack[Len(stack) - 1].kind = "Edit"
    /\ ~stack[Len(stack) - 1].minute.present
    /\ last.id \in DOMAIN store
    /\ Cardinality(DOMAIN store) >= 2

\* C9: the records of the table have ids that are not None and pairwise
\* different; when N new records were saved and none deleted, minutes_all()
\* returns exactly N records and minute_get of the id of each returns it.
C9_ListComplete ==
    LET all == minutes_all(store)
    IN  /\ \A i \in DOMAIN all : all[i].present /\ all[i].id # None
        /\ \A i, j \in DOMAIN all : i # j => all[i].id # all[j].id
        /\ Ids(all) = DOMAIN store
        /\ removed = {} =>
              /\ Len(all) = Len(issued)
              /\ \A i \in DOMAIN all : minute_get(store, all[i].id) = all[i]

\* Two records were saved, none deleted, and minutes_all() was called.
C9_Witness ==
    /\ removed = {} /\ Len(issued) = 2
    /\ last.op = "minutes_all" /\ Len(last.ret) = 2

\* C10: the rows an active List screen shows are the records the table
\* holds; the List that becomes active after Save shows the saved record,
\* the List that becomes active after "Yes!" does not show the deleted one.
C10_ListFresh ==
    (~crashed /\ Len(stack) > 0 /\ Top.kind = "List") =>
        /\ Top.rows = minutes_all(store)
        /\ last.op = "save" => last.id \in Ids(Top.rows)
        /\ last.op = "yes" => last.id \notin Ids(Top.rows)

\* A List screen is active after a confirmed delete, above two older screens,
\* and still shows a record.
C10_Witness ==
    /\ ~crashed /\ Len(stack) >= 3 /\ Top.kind = "List"
    /\ last.op = "yes" /\ last.id \notin DOMAIN store
    /\ Top.rows # << >>

C12_NoUnderflow ==
    /\ [](last.op # "init" => Len(stack) >= 1)
    /\ [][Len(stack') < Len(stack) =>
            /\ Handles("Delete", "no")
            /\ Len(stack) >= 2
            /\ stack[Len(stack) - 1].kind = "List"
            /\ stack' = SubSeq(stack, 1, Len(stack) - 1)]_vars

\* "No" has popped a confirmation that was pushed from the initial List: one
\* screen is left.
C12_Witness ==
    /\ last.op = "no" /\ ~crashed
    /\ Len(stack) = 1 /\ Top.kind = "List"

\* A navigation transition: a step of the App that changes the screen stack
\* by a push or a pop.
Navigates == Next /\ Len(stack') # Len(stack)

C14_DeleteAbsentRaises ==
    [][(last'.op = "minute_delete" /\ stack = << >>
            /\ (~obj.present \/ obj.id \notin DOMAIN store)) =>
          /\ last'.raised # ""
          /\ store' = store]_vars

\* The step pushes one List screen above the screens of the stack.
PushesList ==
    /\ Len(stack') = Len(stack) + 1
    /\ SubSeq(stack', 1, Len(stack)) = stack
    /\ stack'[Len(stack')].kind = "List"

C16_BulletsLifo ==
    [][/\ (Handles("List", "new") \/ Handles("List", "edit")) =>
            stack'[Len(stack')].bullets = << >>
       /\ action_add_bullet =>
            /\ stack' = [stack EXCEPT ![Len(stack)].bullets = @ \o <<"">>]
            /\ store' = store
       /\ action_remove_bullet =>
            LET b == Top.bullets
                c == stack'[Len(stack')].bullets
            IN  /\ Len(c) = (IF Len(b) = 0 THEN 0 ELSE Len(b) - 1)
                /\ \A i \in 1..Len(c) : c[i] = b[i]
                /\ stack' = [stack EXCEPT ![Len(stack)].bullets = c]
                /\ store' = store
       /\ (Active("Edit") /\ Len(stack') = Len(stack)) =>
            /\ store' = store
            /\ \A i \in 1..(Len(stack) - 1) : stack'[i] = stack[i]
       /\ Succeeds("Edit", "save") =>
            /\ DOMAIN store' = DOMAIN store \cup {last'.id}
            /\ store'[last'.id] = Typed(Top)
            /\ DOMAIN store'[last'.id] = {"title", "attendees", "about"}
            /\ \A id \in DOMAIN store \ {last'.id} : store'[id] = store[id]]_vars

\* remove has run on an Edit screen that held two bullets: the first one is
\* left, with a typed text.
C16_Witness ==
    /\ Active("Edit") /\ last.op = "remove_bullet"
    /\ Top.bullets = <<"item">>

\* Save has run on an Edit screen that held a typed bullet.
C16_SaveWitness ==
    /\ last.op = "save" /\ last.raised = "" /\ Len(stack) >= 2
    /\ stack[Len(stack) - 1].kind = "Edit"
    /\ "item" \in Range(stack[Len(stack) - 1].bullets)

\* C17: the target of the active screen exists.  Whenever a View screen, an
\* Edit screen opened from a row, or a delete confirmation is active, the
\* table holds a record with its id; so "Yes!" never hands an absent Minute
\* to minute_delete, View never formats an absent Minute, and an active
\* delete confirmation never has an already deleted target.
C17_TargetsExist ==
    /\ last.raised \notin {"AttributeError", "UnmappedInstanceError",
                            "InvalidRequestError"}
    /\ Active("View") =>
          /\ Top.minute_id \in DOMAIN store
          /\ Top.shown = minute_get(store, Top.minute_id)
    /\ Active("Delete") => minute_get(store, Top.minute_id).present
    /\ (Active("Edit") /\ last.op = "edit") =>
          /\ Top.minute.present
          /\ Top.minute.id = last.id
    /\ (Active("Edit") /\ Top.minute.present) =>
          Top.minute = minute_get(store, Top.minute.id)

\* A delete confirmation is active above an older one whose target was
\* deleted by its "Yes!".
C17_Witness ==
    /\ Active("Delete") /\ Top.minute_id \in DOMAIN store
    /\ \E i \in 1..(Len(stack) - 1) :
          /\ stack[i].kind = "Delete"
          /\ stack[i].minute_id \in removed
          /\ stack[i].minute_id \notin DOMAIN store

====
